---- MODULE Spec2Model ----
(***************************************************************************)
(* A model of gemini-rating-cli: the ChatManager history buffer            *)
(* (chat_manager.py), the GeminiClient gateway (gemini.py), the CLI loop   *)
(* (cli_interface.py) and the CSV / JSON conversation stores               *)
(* (conversation_storage.py).                                              *)
(*                                                                         *)
(* Python strings are sequences of one-character strings, so that          *)
(* concatenation, join, strip, lower, replace and int() are computed.      *)
(***************************************************************************)
EXTENDS Integers, Sequences, FiniteSets, TLC

VARIABLES
    history,            \* ChatManager._history
    background_content, \* GeminiClient.background_content
    prompt,             \* the full prompt last handed to the hosted model
    result,             \* outcome of the last call, as its caller sees it
    calls,              \* the send_message calls made since the history was last empty
    pc,                 \* CLIInterface.start: where the loop is blocked
    user_input,         \* CLIInterface.start: the line last read by _get_input
    examples,           \* contents of CLIInterface._csv_file (examples.csv)
    csvFile,            \* contents of CSVConversationStorage._file_path
    jsonFile,           \* contents of JSONConversationStorage._file_path
    saves               \* number of save calls that reached their write

vars == <<history, background_content, prompt, result, calls, pc, user_input,
          examples, csvFile, jsonFile, saves>>

chatVars == <<history, prompt, result, calls>>
cliVars == <<pc, user_input, examples>>
storeVars == <<csvFile, jsonFile, saves>>

----------------------------------------------------------------------------
(* Bounds *)

MaxTurns == 4        \* longest history explored
MaxSaves == 2        \* save calls that reach their write, per run

----------------------------------------------------------------------------
(* String helpers *)

NL == "\n"
CR == "\r"
SP == " "

RECURSIVE Join(_, _)
Join(strs, sep) ==
    IF Len(strs) = 0 THEN <<>>
    ELSE IF Len(strs) = 1 THEN strs[1]
    ELSE strs[1] \o sep \o Join(Tail(strs), sep)

\* str.replace(old, new) for one-character old and new
Replace(s, old, new) == [i \in 1..Len(s) |-> IF s[i] = old THEN new ELSE s[i]]

IsSpace(c) == c \in {SP, NL, CR, "\t"}

RECURSIVE LStrip(_)
LStrip(s) == IF Len(s) > 0 /\ IsSpace(s[1]) THEN LStrip(Tail(s)) ELSE s

RECURSIVE RStrip(_)
RStrip(s) ==
    IF Len(s) > 0 /\ IsSpace(s[Len(s)]) THEN RStrip(SubSeq(s, 1, Len(s) - 1)) ELSE s

Strip(s) == LStrip(RStrip(s))

LowerChar(c) ==
    CASE c = "Q" -> "q" [] c = "U" -> "u" [] c = "I" -> "i" [] c = "T" -> "t"
      [] c = "E" -> "e" [] c = "X" -> "x" [] c = "N" -> "n" [] c = "W" -> "w"
      [] c = "Y" -> "y" [] c = "H" -> "h"
      [] OTHER -> c

Lower(s) == [i \in 1..Len(s) |-> LowerChar(s[i])]

DigitVal(c) ==
    CASE c = "0" -> 0 [] c = "1" -> 1 [] c = "2" -> 2 [] c = "3" -> 3
      [] c = "4" -> 4 [] c = "5" -> 5 [] c = "6" -> 6 [] c = "7" -> 7
      [] c = "8" -> 8 [] c = "9" -> 9
      [] OTHER -> -1

IsDigits(s) == Len(s) > 0 /\ \A i \in 1..Len(s) : DigitVal(s[i]) >= 0

RECURSIVE DigitsVal(_)
DigitsVal(s) ==
    IF Len(s) = 0 THEN 0 ELSE 10 * DigitsVal(SubSeq(s, 1, Len(s) - 1)) + DigitVal(s[Len(s)])

\* int(s): ok = FALSE stands for ValueError
ParseInt(s) ==
    LET t == Strip(s) IN
    IF IsDigits(t) THEN [ok |-> TRUE, value |-> DigitsVal(t)]
    ELSE IF Len(t) > 1 /\ t[1] \in {"-", "+"} /\ IsDigits(Tail(t))
         THEN [ok |-> TRUE, value |-> IF t[1] = "-" THEN 0 - DigitsVal(Tail(t)) ELSE DigitsVal(Tail(t))]
    ELSE [ok |-> FALSE, value |-> 0]

\* str(n) for the small integers a rating can be
DigitChar(d) ==
    CASE d = 0 -> "0" [] d = 1 -> "1" [] d = 2 -> "2" [] d = 3 -> "3" [] d = 4 -> "4"
      [] d = 5 -> "5" [] d = 6 -> "6" [] d = 7 -> "7" [] d = 8 -> "8" [] OTHER -> "9"

RECURSIVE NatStr(_)
NatStr(n) == IF n < 10 THEN <<DigitChar(n)>> ELSE NatStr(n \div 10) \o <<DigitChar(n % 10)>>

IntStr(n) == IF n < 0 THEN <<"-">> \o NatStr(0 - n) ELSE NatStr(n)

----------------------------------------------------------------------------
(* Turns *)

USER == <<"u", "s", "e", "r">>
ASSISTANT == <<"a", "s", "s", "i", "s", "t", "a", "n", "t">>

Turn(role, text) == [role |-> role, text |-> text]

\* messages a caller passes to send_message
Messages == {<<"h", "i">>, <<"a", NL, "b">>, <<>>}

\* texts the hosted model answers with
Replies == {<<"4">>, <<"o", "k">>}

----------------------------------------------------------------------------
(* gemini.py *)

Backgrounds == {<<>>, <<"B">>}

\* GeminiClient.generate_content: the prompt handed to the hosted model
generate_content(bg, p) ==
    IF bg # <<>>
    THEN <<"S", "y", "s", "t", "e", "m", ":", " ">> \o bg \o <<NL, "U", "s", "e", "r", ":", " ">> \o p
    ELSE p

\* What the hosted model does with a prompt: the call raises, or it returns a
\* response whose .text is readable, or one whose .text raises.
ModelOutcomes ==
    {[kind |-> "raise", text |-> <<>>], [kind |-> "notext", text |-> <<>>]}
    \cup {[kind |-> "response", text |-> r] : r \in Replies}

\* GeminiClient.get_response_text
get_response_text(response) == [ok |-> response.kind = "response", text |-> response.text]

----------------------------------------------------------------------------
(* chat_manager.py *)

AppendUser_Skip(h, message) == h

AppendUser_WrongRole(h, message) == Append(h, Turn(ASSISTANT, message))

\* send_message, line 42
AppendUser(h, message) == Append(h, Turn(USER, message))

\* send_message, lines 45-47
history_prompt(h) ==
    Join([i \in 1..Len(h) |-> h[i].role \o <<":", " ">> \o h[i].text], <<NL>>)

AppendAssistant_Echo(h, response_text) == Append(h, Turn(ASSISTANT, h[Len(h)].text))

\* send_message, line 52
AppendAssistant(h, response_text) == Append(h, Turn(ASSISTANT, response_text))

RECURSIVE get_first_user_message(_)
get_first_user_message(h) ==
    IF Len(h) = 0 THEN <<>>
    ELSE IF h[1].role = USER THEN h[1].text
    ELSE get_first_user_message(Tail(h))

RECURSIVE get_last_assistant_message_FromFront(_)
get_last_assistant_message_FromFront(h) ==
    IF Len(h) = 0 THEN <<>>
    ELSE IF h[1].role = ASSISTANT THEN h[1].text
    ELSE get_last_assistant_message_FromFront(Tail(h))

RECURSIVE get_last_assistant_message(_)
get_last_assistant_message(h) ==
    IF Len(h) = 0 THEN <<>>
    ELSE IF h[Len(h)].role = ASSISTANT THEN h[Len(h)].text
    ELSE get_last_assistant_message(SubSeq(h, 1, Len(h) - 1))

Outcome(op, arg, raised, ret) == [op |-> op, arg |-> arg, raised |-> raised, ret |-> ret]

start_new_chat_Keep ==
    /\ history' = history
    /\ calls' = <<>>
    /\ result' = Outcome("start_new_chat", <<>>, "none", <<>>)
    /\ UNCHANGED prompt

start_new_chat ==
    /\ history' = <<>>
    /\ calls' = <<>>
    /\ result' = Outcome("start_new_chat", <<>>, "none", <<>>)
    /\ UNCHANGED prompt

send_message(message) ==
    /\ Len(history) + 2 <= MaxTurns
    /\ \E response \in ModelOutcomes :
        LET h1 == AppendUser(history, message)
            response_text == get_response_text(response)
        IN  /\ prompt' = generate_content(background_content, history_prompt(h1))
            /\ IF response.kind = "raise" \/ ~response_text.ok
               THEN /\ history' = h1
                    /\ result' = Outcome("send_message", message, "GatewayError", <<>>)
                    /\ calls' = Append(calls, [message |-> message, ok |-> FALSE, reply |-> <<>>])
               ELSE /\ history' = AppendAssistant(h1, response_text.text)
                    /\ result' = Outcome("send_message", message, "none", response.text)
                    /\ calls' = Append(calls, [message |-> message, ok |-> TRUE, reply |-> response.text])

get_history ==
    /\ result' = Outcome("get_history", <<>>, "none", history)
    /\ UNCHANGED <<history, prompt, calls>>

first_user_message ==
    /\ result' = Outcome("get_first_user_message", <<>>, "none", get_first_user_message(history))
    /\ UNCHANGED <<history, prompt, calls>>

last_assistant_message ==
    /\ result' = Outcome("get_last_assistant_message", <<>>, "none", get_last_assistant_message(history))
    /\ UNCHANGED <<history, prompt, calls>>


----------------------------------------------------------------------------
(* csv.writer and files *)

\* A file is the sequence of writes that reached it: a write that went through
\* left its whole text, a write that failed part-way left some non-empty proper
\* prefix of its text (torn). The program never reads a CSV file back.
Absent == [exists |-> FALSE, data |-> <<>>]
File(data) == [exists |-> TRUE, data |-> data]
Whole(text) == [text |-> text, torn |-> FALSE]
Torn(text) == [text |-> text, torn |-> TRUE]

NeedsQuote(f) == \E i \in 1..Len(f) : f[i] \in {",", "\"", CR, NL}

RECURSIVE DoubleQuotes(_)
DoubleQuotes(f) ==
    IF Len(f) = 0 THEN <<>>
    ELSE (IF f[1] = "\"" THEN <<"\"", "\"">> ELSE <<f[1]>>) \o DoubleQuotes(Tail(f))

QuoteField(f) == IF NeedsQuote(f) THEN <<"\"">> \o DoubleQuotes(f) \o <<"\"">> ELSE f

\* csv.writer(f).writerow(fields): minimal quoting, "\r\n" line terminator
writerow(fields) ==
    Join([i \in 1..Len(fields) |-> QuoteField(fields[i])], <<",">>) \o <<CR, NL>>

HeaderRow ==
    writerow(<< <<"t", "e", "x", "t", "I", "n", "p", "u", "t">>,
                <<"o", "u", "t", "p", "u", "t">>,
                <<"r", "a", "t", "i", "n", "g">> >>)

\* a row some earlier run left in the file
OldRow == writerow(<< <<"o", "l", "d">>, <<"r", "o", "w">>, <<"2">> >>)

\* open(path, "a") then write `new`: everything is written, or the open fails
\* and nothing is, or the write fails part-way and a proper prefix is left
AppendOutcomes(data, new, io) ==
    IF Len(new) = 0 THEN {data}
    ELSE IF io = "ok" THEN {Append(data, Whole(new))}
    ELSE {data} \cup (IF Len(new) > 1 THEN {Append(data, Torn(new))} ELSE {})

IOs == {"ok", "fail"}

SaveArg(rating, io) == [rating |-> rating, io |-> io]

----------------------------------------------------------------------------
(* cli_interface.py *)

\* CLIInterface._ensure_csv_exists
CLI_ensure_csv_exists(file) == IF ~file.exists THEN File(<<Whole(HeaderRow)>>) ELSE file

QuitWords == {<<"q", "u", "i", "t">>, <<"e", "x", "i", "t">>, <<"q">>}
NewWord == <<"n", "e", "w">>

\* lines typed at the "You: " prompt
Lines ==
    {<<"q", "u", "i", "t">>, <<" ", "Q", " ">>, <<"E", "x", "i", "t">>, <<"N", "e", "w">>,
     <<>>, <<" ">>, <<"q", "u", "i", "t", "e">>}

\* answers typed at the save prompt
SaveAnswers == {<<"y">>, <<" ", "Y">>, <<"n">>, <<>>, <<"y", "e", "s">>}

\* answers typed at the rating prompt
RatingAnswers == {<<"1">>, <<" ", "5", " ">>, <<"3">>, <<"0">>, <<"6">>, <<"x">>, <<>>, <<"-", "1">>, <<"1", "0">>}

HELLO == <<"h", "e", "l", "l", "o">>
GOODBYE == <<"g", "o", "o", "d", "b", "y", "e">>

\* _save_conversation_to_file, lines 54-55: except Exception, print
CLI_save_except(rating, io) == Outcome("_save_conversation_to_file", SaveArg(rating, io), "none", "error")

\* _save_conversation_to_file
CLI_save_conversation_to_file(rating) ==
    \E io \in IOs :
        \E data \in AppendOutcomes(examples.data, writerow(<<HELLO, GOODBYE, IntStr(rating)>>), io) :
            /\ examples' = File(data)
            /\ saves' = saves + 1
            /\ result' = IF io = "ok"
                         THEN Outcome("_save_conversation_to_file", SaveArg(rating, io), "none", "saved")
                         ELSE CLI_save_except(rating, io)

\* start, lines 67-72: _get_input, then _should_exit sees a quit word and
\* _collect_conversation_feedback blocks at the save prompt
CLI_should_exit(line) ==
    /\ pc = "input"
    /\ user_input' = Strip(line)
    /\ Lower(user_input') \in QuitWords
    /\ pc' = "save_prompt"
    /\ UNCHANGED <<chatVars, examples, saves>>

\* start, lines 74-75: _handle_commands on "new"
CLI_handle_commands(line) ==
    /\ pc = "input"
    /\ user_input' = Strip(line)
    /\ Lower(user_input') \notin QuitWords
    /\ Lower(user_input') = NewWord
    /\ start_new_chat
    /\ pc' = "input"
    /\ UNCHANGED <<examples, saves>>

\* start, lines 78-79: _process_message; an exception of send_message is
\* caught nowhere and leaves start
CLI_process_message(line) ==
    /\ pc = "input"
    /\ user_input' = Strip(line)
    /\ Lower(user_input') \notin QuitWords
    /\ Lower(user_input') # NewWord
    /\ user_input' # <<>>
    /\ send_message(user_input')
    /\ pc' = IF result'.raised = "none" THEN "input" ELSE "crashed"
    /\ UNCHANGED <<examples, saves>>

\* start, lines 80-81: an empty line
CLI_invalid_message(line) ==
    /\ pc = "input"
    /\ user_input' = Strip(line)
    /\ Lower(user_input') \notin QuitWords
    /\ Lower(user_input') # NewWord
    /\ user_input' = <<>>
    /\ pc' = "input"
    /\ UNCHANGED <<chatVars, examples, saves>>

\* _collect_conversation_feedback, lines 111-114: the answer to the save prompt
CLI_save_answer(answer) ==
    /\ pc = "save_prompt"
    /\ pc' = IF Lower(Strip(answer)) = <<"y">> THEN "rating_prompt" ELSE "exited"
    /\ UNCHANGED <<chatVars, user_input, examples, saves>>

\* _collect_conversation_feedback, lines 115-123: one answer to the rating prompt
CLI_rating_answer(answer) ==
    /\ pc = "rating_prompt"
    /\ LET rating == ParseInt(answer) IN
        IF rating.ok /\ 1 <= rating.value /\ rating.value <= 5
        THEN /\ CLI_save_conversation_to_file(rating.value)
             /\ pc' = "exited"
             /\ UNCHANGED <<history, prompt, calls, user_input>>
        ELSE /\ pc' = "rating_prompt"
             /\ UNCHANGED <<chatVars, user_input, examples, saves>>

CLINext ==
    \/ \E line \in Lines : CLI_should_exit(line) /\ UNCHANGED <<background_content, csvFile, jsonFile>>
    \/ \E line \in Lines : CLI_handle_commands(line) /\ UNCHANGED <<background_content, csvFile, jsonFile>>
    \/ \E line \in Lines : CLI_process_message(line) /\ UNCHANGED <<background_content, csvFile, jsonFile>>
    \/ \E line \in Lines : CLI_invalid_message(line) /\ UNCHANGED <<background_content, csvFile, jsonFile>>
    \/ \E answer \in SaveAnswers : CLI_save_answer(answer) /\ UNCHANGED <<background_content, csvFile, jsonFile>>
    \/ \E answer \in RatingAnswers : CLI_rating_answer(answer) /\ UNCHANGED <<background_content, csvFile, jsonFile>>

----------------------------------------------------------------------------
(* conversation_storage.py *)

\* ratings handed to the stores: the valid ones and both neighbours
Ratings == 0..6

\* texts handed to the stores
TextInputs == {<<"a", NL, "b">>}
Outputs == {<<"x", CR>>}
MessageLists ==
    {<<>>, <<Turn(USER, <<"a", NL, "b">>), Turn(ASSISTANT, <<"x", ",">>)>>}

\* CSVConversationStorage._ensure_csv_exists
CSV_ensure_csv_exists(file) == IF ~file.exists THEN File(<<Whole(HeaderRow)>>) ELSE file

CSV_save_conversation_valid_Low(rating) == 0 <= rating /\ rating <= 5

\* CSVConversationStorage.save_conversation, line 79
CSV_save_conversation_valid(rating) == 1 <= rating /\ rating <= 5

\* CSVConversationStorage.save_full_conversation, line 107
CSV_save_full_conversation_valid(rating) == 1 <= rating /\ rating <= 5

\* save_conversation, lines 83-84
Clean(text) == Replace(Replace(text, NL, SP), CR, SP)

CSV_save_except_Reraise(rating, io) == Outcome("csv.save_conversation", SaveArg(rating, io), "Exception", "error")

\* save_conversation, lines 91-92: except Exception, print
CSV_save_except(rating, io) == Outcome("csv.save_conversation", SaveArg(rating, io), "none", "error")

\* save_full_conversation, lines 116-117: except Exception, print
CSV_save_full_except(rating, io) == Outcome("csv.save_full_conversation", SaveArg(rating, io), "none", "error")

\* CSVConversationStorage.save_conversation
CSV_save_conversation(text_input, output, rating) ==
    /\ csvFile.exists
    /\ IF ~CSV_save_conversation_valid(rating)
       THEN /\ result' = Outcome("csv.save_conversation", SaveArg(rating, "none"), "ValueError", "")
            /\ UNCHANGED <<csvFile, saves>>
       ELSE /\ saves < MaxSaves
            /\ saves' = saves + 1
            /\ \E io \in IOs :
                \E data \in AppendOutcomes(csvFile.data,
                                           writerow(<<Clean(text_input), Clean(output), IntStr(rating)>>), io) :
                    /\ csvFile' = File(data)
                    /\ result' = IF io = "ok"
                                 THEN Outcome("csv.save_conversation", SaveArg(rating, io), "none", "saved")
                                 ELSE CSV_save_except(rating, io)

\* the rows save_full_conversation writes, lines 113-114
FullRows(messages, rating) ==
    Join([i \in 1..Len(messages) |->
            writerow(<<messages[i].role, messages[i].text, IntStr(rating)>>)], <<>>)

\* CSVConversationStorage.save_full_conversation
CSV_save_full_conversation(messages, rating) ==
    /\ csvFile.exists
    /\ IF ~CSV_save_full_conversation_valid(rating)
       THEN /\ result' = Outcome("csv.save_full_conversation", SaveArg(rating, "none"), "ValueError", "")
            /\ UNCHANGED <<csvFile, saves>>
       ELSE /\ saves < MaxSaves
            /\ saves' = saves + 1
            /\ \E io \in IOs :
                \E data \in AppendOutcomes(csvFile.data, FullRows(messages, rating), io) :
                    /\ csvFile' = File(data)
                    /\ result' = IF io = "ok"
                                 THEN Outcome("csv.save_full_conversation", SaveArg(rating, io), "none", "saved")
                                 ELSE CSV_save_full_except(rating, io)

CSVNext ==
    \/ \E text_input \in TextInputs, output \in Outputs, rating \in Ratings :
        /\ CSV_save_conversation(text_input, output, rating)
        /\ UNCHANGED <<background_content, history, prompt, calls, cliVars, jsonFile>>
    \/ \E messages \in MessageLists, rating \in Ratings :
        /\ CSV_save_full_conversation(messages, rating)
        /\ UNCHANGED <<background_content, history, prompt, calls, cliVars, jsonFile>>

\* The JSON file: the document {"conversations": [...]} when valid; when a
\* rewrite failed after open(path, "w") truncated it, the records whose text
\* reached the disk, in a document that no longer parses.
NoJson == [exists |-> FALSE, valid |-> FALSE, conversations |-> <<>>]
JsonDoc(conversations) == [exists |-> TRUE, valid |-> TRUE, conversations |-> conversations]
JsonTorn(conversations) == [exists |-> TRUE, valid |-> FALSE, conversations |-> conversations]

\* JSONConversationStorage._ensure_json_exists
JSON_ensure_json_exists(file) == IF ~file.exists THEN JsonDoc(<<>>) ELSE file

\* JSONConversationStorage.save_conversation, line 155
JSON_save_conversation_valid(rating) == 1 <= rating /\ rating <= 5

\* JSONConversationStorage.save_full_conversation, line 181
JSON_save_full_conversation_valid(rating) == 1 <= rating /\ rating <= 5

JsonIOs == {"ok", "read_fails", "write_fails"}

\* _save_to_json, lines 210-211: except Exception, print
JSON_save_except(op, rating, io) == Outcome(op, SaveArg(rating, io), "none", "error")

\* JSONConversationStorage._save_to_json
JSON_save_to_json(op, conversation) ==
    /\ saves < MaxSaves
    /\ saves' = saves + 1
    /\ \E io \in JsonIOs :
        IF io = "read_fails" \/ ~jsonFile.valid
        THEN \* open(path, "r") or json.load raised
             /\ result' = JSON_save_except(op, conversation.rating, "read_fails")
             /\ UNCHANGED jsonFile
        ELSE LET data == Append(jsonFile.conversations, conversation) IN
             IF io = "write_fails"
             THEN \* open(path, "w") raised, or it truncated the file and json.dump raised
                  /\ result' = JSON_save_except(op, conversation.rating, io)
                  /\ \/ UNCHANGED jsonFile
                     \/ \E k \in 0..Len(data) : jsonFile' = JsonTorn(SubSeq(data, 1, k))
             ELSE /\ result' = Outcome(op, SaveArg(conversation.rating, io), "none", "saved")
                  /\ jsonFile' = JsonDoc(data)

\* JSONConversationStorage.save_conversation
JSON_save_conversation(text_input, output, rating) ==
    /\ jsonFile.exists
    /\ IF ~JSON_save_conversation_valid(rating)
       THEN /\ result' = Outcome("json.save_conversation", SaveArg(rating, "none"), "ValueError", "")
            /\ UNCHANGED <<jsonFile, saves>>
       ELSE JSON_save_to_json("json.save_conversation",
                [messages |-> <<Turn(USER, text_input), Turn(ASSISTANT, output)>>, rating |-> rating])

\* JSONConversationStorage.save_full_conversation
JSON_save_full_conversation(messages, rating) ==
    /\ jsonFile.exists
    /\ IF ~JSON_save_full_conversation_valid(rating)
       THEN /\ result' = Outcome("json.save_full_conversation", SaveArg(rating, "none"), "ValueError", "")
            /\ UNCHANGED <<jsonFile, saves>>
       ELSE JSON_save_to_json("json.save_full_conversation", [messages |-> messages, rating |-> rating])

JSONNext ==
    \/ \E text_input \in TextInputs, output \in Outputs, rating \in Ratings :
        /\ JSON_save_conversation(text_input, output, rating)
        /\ UNCHANGED <<background_content, history, prompt, calls, cliVars, csvFile>>
    \/ \E messages \in MessageLists, rating \in Ratings :
        /\ JSON_save_full_conversation(messages, rating)
        /\ UNCHANGED <<background_content, history, prompt, calls, cliVars, csvFile>>

----------------------------------------------------------------------------
(* Specifications *)

NoOutcome == Outcome("init", <<>>, "none", <<>>)

\* what a file path may hold before the program starts
OldCsvFiles == {Absent, File(<<Whole(HeaderRow), Whole(OldRow)>>)}
OldJsonFiles ==
    {NoJson,
     JsonDoc(<<[messages |-> <<Turn(USER, <<"o", "l", "d">>)>>, rating |-> 2]>>)}

InitCommon ==
    /\ history = <<>>
    /\ background_content \in Backgrounds
    /\ prompt = <<>>
    /\ result = NoOutcome
    /\ calls = <<>>
    /\ user_input = <<>>
    /\ saves = 0

\* a ChatManager, called directly
Init ==
    /\ InitCommon
    /\ pc = "idle"
    /\ examples = Absent
    /\ csvFile = Absent
    /\ jsonFile = NoJson

\* CLIInterface(chat_manager).start()
InitCLI ==
    /\ InitCommon
    /\ pc = "input"
    /\ \E old \in OldCsvFiles : examples = CLI_ensure_csv_exists(old)
    /\ csvFile = Absent
    /\ jsonFile = NoJson

\* CSVConversationStorage()
InitCSV ==
    /\ InitCommon
    /\ pc = "idle"
    /\ examples = Absent
    /\ \E old \in OldCsvFiles : csvFile = CSV_ensure_csv_exists(old)
    /\ jsonFile = NoJson

\* JSONConversationStorage()
InitJSON ==
    /\ InitCommon
    /\ pc = "idle"
    /\ examples = Absent
    /\ csvFile = Absent
    /\ \E old \in OldJsonFiles : jsonFile = JSON_ensure_json_exists(old)

ChatNext ==
    \/ start_new_chat /\ UNCHANGED <<background_content, cliVars, storeVars>>
    \/ \E message \in Messages :
         send_message(message) /\ UNCHANGED <<background_content, cliVars, storeVars>>
    \/ get_history /\ UNCHANGED <<background_content, cliVars, storeVars>>
    \/ first_user_message /\ UNCHANGED <<background_content, cliVars, storeVars>>
    \/ last_assistant_message /\ UNCHANGED <<background_content, cliVars, storeVars>>

\* the ChatManager driven through its public methods
Spec == Init /\ [][ChatNext]_vars

\* the interactive session
SpecCLI == InitCLI /\ [][CLINext]_vars

\* the three places that save a rated conversation
InitStore == InitCLI \/ InitCSV \/ InitJSON
StoreNext == CLINext \/ CSVNext \/ JSONNext
SpecStore == InitStore /\ [][StoreNext]_vars

----------------------------------------------------------------------------
(* Properties of the ChatManager *)

AllOk == \A k \in 1..Len(calls) : calls[k].ok

\* C1: from an empty history, after n send_message calls that all succeeded
\* (no start_new_chat in between) the history has exactly 2n turns; turn 2k-1
\* is {user, k-th message} and turn 2k is {assistant, k-th reply}.
C1_SuccessfulSendsAlternate ==
    AllOk =>
        /\ Len(history) = 2 * Len(calls)
        /\ \A k \in 1..Len(calls) :
            /\ history[2 * k - 1] = Turn(USER, calls[k].message)
            /\ history[2 * k] = Turn(ASSISTANT, calls[k].reply)

C1_Witness ==
    /\ AllOk
    /\ Len(calls) = 2
    /\ calls[1].message # calls[2].message
    /\ calls[1].reply # calls[2].reply
    /\ Len(history) = 4

FailedSendStep == Len(calls') = Len(calls) + 1 /\ ~calls'[Len(calls')].ok

\* C2: when the gateway call inside send_message fails, the error reaches the
\* caller and the history is the history before the call with exactly one
\* {user, message} turn appended, and no assistant turn (no rollback).
C2_FailedSendKeepsUserTurn ==
    [][FailedSendStep =>
        /\ result'.op = "send_message"
        /\ result'.raised = "GatewayError"
        /\ history' = Append(history, Turn(USER, calls'[Len(calls')].message))]_vars

C2_Witness ==
    /\ result.op = "send_message"
    /\ result.raised = "GatewayError"
    /\ Len(calls) = 2
    /\ calls[1].ok
    /\ ~calls[2].ok
    /\ Len(history) = 3
    /\ history[3] = Turn(USER, calls[2].message)

RECURSIVE TurnsSince(_)
TurnsSince(cs) ==
    IF Len(cs) = 0 THEN <<>>
    ELSE <<Turn(USER, cs[1].message)>>
         \o (IF cs[1].ok THEN <<Turn(ASSISTANT, cs[1].reply)>> ELSE <<>>)
         \o TurnsSince(Tail(cs))

\* the turns a send_message may put in its prompt: those added since the reset,
\* up to and including its own user turn
PromptTurns(cs) ==
    TurnsSince(SubSeq(cs, 1, Len(cs) - 1)) \o <<Turn(USER, cs[Len(cs)].message)>>

\* C7: start_new_chat always succeeds and leaves the history empty, whatever
\* the state before; a send_message after it builds its prompt only from the
\* turns added since the reset.
C7_ResetEmptiesHistory ==
    /\ result.op = "start_new_chat" => (history = <<>> /\ result.raised = "none")
    /\ result.op = "send_message" =>
         prompt = generate_content(background_content, history_prompt(PromptTurns(calls)))

\* a reset made after at least one send (the prompt of that send is still there)
C7_Witness ==
    /\ result.op = "start_new_chat"
    /\ prompt # <<>>
    /\ history = <<>>

UserIdx == {i \in 1..Len(history) : history[i].role = USER}
AssistantIdx == {i \in 1..Len(history) : history[i].role = ASSISTANT}
MinOf(S) == CHOOSE i \in S : \A j \in S : i <= j
MaxOf(S) == CHOOSE i \in S : \A j \in S : i >= j

\* C8: get_first_user_message is the text of the lowest-index user turn, or
\* the empty string; get_last_assistant_message is the text of the
\* highest-index assistant turn, or the empty string; after two successful
\* sends the latter is the second reply.
C8_FirstUserLastAssistant ==
    /\ get_first_user_message(history) =
         (IF UserIdx = {} THEN <<>> ELSE history[MinOf(UserIdx)].text)
    /\ get_last_assistant_message(history) =
         (IF AssistantIdx = {} THEN <<>> ELSE history[MaxOf(AssistantIdx)].text)
    /\ (AllOk /\ Len(calls) = 2) => get_last_assistant_message(history) = calls[2].reply
    /\ result.op = "get_first_user_message" =>
         result.ret = (IF UserIdx = {} THEN <<>> ELSE history[MinOf(UserIdx)].text)
    /\ result.op = "get_last_assistant_message" =>
         result.ret = (IF AssistantIdx = {} THEN <<>> ELSE history[MaxOf(AssistantIdx)].text)

C8_Witness ==
    /\ AllOk
    /\ Len(calls) = 2
    /\ calls[1].reply # calls[2].reply
    /\ result.op = "get_last_assistant_message"
    /\ result.ret = calls[2].reply

\* C10: a non-empty history starts with a user turn, every assistant turn is
\* immediately preceded by a user turn, and there are never more assistant
\* turns than user turns.
C10_HistoryShape ==
    /\ Len(history) > 0 => history[1].role = USER
    /\ \A i \in AssistantIdx : i > 1 /\ history[i - 1].role = USER
    /\ Cardinality(AssistantIdx) <= Cardinality(UserIdx)

\* a failed send (lone user turn) followed by a successful one
C10_Witness ==
    /\ Len(history) = 3
    /\ history[1].role = USER
    /\ history[2].role = USER
    /\ history[3].role = ASSISTANT

----------------------------------------------------------------------------
(* Properties of the interactive session *)

\* C3: in the interactive session a record is written to examples.csv only
\* when the history holds at least one turn and a rating in 1..5 was supplied;
\* quitting and saving with an empty history writes nothing.
C3_SaveNeedsTurnAndRating ==
    [][examples' # examples =>
        /\ Len(history) >= 1
        /\ result'.op = "_save_conversation_to_file"
        /\ result'.arg.rating \in 1..5]_vars

\* C4: the loop of start ends only on a quit command; a failure in any other
\* step, a gateway failure in _process_message included, leaves the loop
\* waiting for the next line.
C4_LoopEndsOnlyOnQuit ==
    [][(pc = "input" /\ pc' # "input") =>
        (Lower(user_input') \in QuitWords /\ pc' = "save_prompt")]_vars

----------------------------------------------------------------------------
(* Properties of the stores *)

StoreOps ==
    {"csv.save_conversation", "csv.save_full_conversation",
     "json.save_conversation", "json.save_full_conversation"}

SaveOps == StoreOps \cup {"_save_conversation_to_file"}

\* C5: in both stores save_conversation and save_full_conversation raise the
\* invalid-rating error for a rating outside 1..5 before any write, leaving
\* the stored records as they were, and do not raise it for a rating in 1..5.
C5_InvalidRatingRejected ==
    [][result'.op \in StoreOps =>
        /\ result'.arg.rating \notin 1..5 =>
             (result'.raised = "ValueError" /\ csvFile' = csvFile /\ jsonFile' = jsonFile)
        /\ result'.arg.rating \in 1..5 => result'.raised # "ValueError"]_vars

\* rating 0 rejected by a CSV store that already took one save
C5_Witness ==
    /\ result.op = "csv.save_conversation"
    /\ result.arg.rating = 0
    /\ result.raised = "ValueError"
    /\ saves = 1
    /\ Len(csvFile.data) = 2

IsPrefix(a, b) == Len(a) <= Len(b) /\ SubSeq(b, 1, Len(a)) = a

\* C6: the stores are append-only: whatever a save does, succeed or fail,
\* every record in the file before it is still there after it, unchanged and
\* in the same position.
C6_AppendOnly ==
    [][/\ IsPrefix(csvFile.data, csvFile'.data)
       /\ IsPrefix(examples.data, examples'.data)
       /\ IsPrefix(jsonFile.conversations, jsonFile'.conversations)]_vars

\* C9: a write or serialization failure during a save with a valid rating is
\* caught inside the operation and reported as a message; the operation
\* returns to its caller and raises nothing.
C9_WriteFailureCaught ==
    (result.op \in SaveOps /\ result.arg.io \notin {"ok", "none"}) =>
        /\ result.arg.rating \in 1..5
        /\ result.raised = "none"
        /\ result.ret = "error"
        /\ result.op = "_save_conversation_to_file" => pc = "exited"

\* a CSV save whose write failed part-way
C9_Witness ==
    /\ result.op = "csv.save_conversation"
    /\ result.arg.io = "fail"
    /\ result.raised = "none"
    /\ Len(csvFile.data) > 0
    /\ csvFile.data[Len(csvFile.data)].torn

====
